---- MODULE Spec2Model ----
(***************************************************************************)
(* A model of github.com/go-core-fx/config: the layered loader Load        *)
(* (structured file -> .env -> process environment -> unmarshal) and its   *)
(* key normalizer / value coercer envTransform.                            *)
(*                                                                         *)
(* Strings that the code inspects character by character (raw keys and raw *)
(* values of the environment-style sources) are sequences of one-character *)
(* strings.  Values of the merge store are tagged records:                 *)
(*   Str(s)  a string,  Num(n)  a number,  List(l)  a list,  Map(m)  a map *)
(* where m is a function from keys (character sequences) to values.        *)
(***************************************************************************)
EXTENDS Integers, Sequences, FiniteSets, TLC

VARIABLES
    opts,        \* the options passed to Load, a sequence of WithLocalYAML paths
    dotenvFile,  \* the .env file of the working directory
    environ,     \* the process environment
    options,     \* the options accumulator (its withYaml field)
    k,           \* the merge store (koanf instance) of this call
    c,           \* the caller's target structure
    err,         \* the error Load returns
    pc,          \* the position of Load
    ran,         \* the stages that have touched their source or the target, in order
    log,         \* history: the trees merged into the store, each with the store before
    tk, tv,      \* envTransform probe: the raw key and raw value
    tout         \* envTransform probe: the result, or NoResult

vars == <<opts, dotenvFile, environ, options, k, c, err, pc, ran, log, tk, tv, tout>>

loadVars == <<opts, dotenvFile, environ, options, k, c, err, pc, ran, log>>

probeVars == <<tk, tv, tout>>

-----------------------------------------------------------------------------
(* Bounds *)

MaxOpts == 2

MaxEnvVars == 2

MaxDotenvVars == 1

MaxValLen == 3

-----------------------------------------------------------------------------
(* Values *)

Str(s) == [kind |-> "str", s |-> s]

Num(n) == [kind |-> "num", n |-> n]

List(l) == [kind |-> "list", l |-> l]

Map(m) == [kind |-> "map", m |-> m]

EmptyMap == <<>>

IsMap(v) == v.kind = "map"

-----------------------------------------------------------------------------
(* Characters and strings *)

Space == " "

Quote == "\""

\* strings.ToLower on one character
LowerChar(ch) ==
    CASE ch = "A" -> "a"
      [] ch = "D" -> "d"
      [] ch = "F" -> "f"
      [] ch = "H" -> "h"
      [] ch = "P" -> "p"
      [] OTHER -> ch

ToLower(s) == [i \in 1..Len(s) |-> LowerChar(s[i])]

HasPrefix(s, ch) == Len(s) >= 1 /\ s[1] = ch

HasSuffix(s, ch) == Len(s) >= 1 /\ s[Len(s)] = ch

RECURSIVE TrimLeft(_)
TrimLeft(s) == IF Len(s) >= 1 /\ s[1] = Space THEN TrimLeft(Tail(s)) ELSE s

RECURSIVE TrimRight(_)
TrimRight(s) ==
    IF Len(s) >= 1 /\ s[Len(s)] = Space THEN TrimRight(SubSeq(s, 1, Len(s) - 1)) ELSE s

\* strings.TrimSpace, the trimming the specification speaks of
TrimSpace(s) == TrimRight(TrimLeft(s))

-----------------------------------------------------------------------------
(* encoding/json: the decoder, on the characters { } [ ] " : , space, the  *)
(* digit 1 and the letter a.  A parse result is [ok, v, i]: i is the index *)
(* of the first character not consumed.                                    *)

Fail == [ok |-> FALSE, v |-> Str(<<>>), i |-> 0]

IsDigit(ch) == ch = "1"

RECURSIVE SkipWs(_, _)
SkipWs(s, i) == IF i <= Len(s) /\ s[i] = Space THEN SkipWs(s, i + 1) ELSE i

RECURSIVE NumEnd(_, _)
NumEnd(s, i) == IF i <= Len(s) /\ IsDigit(s[i]) THEN NumEnd(s, i + 1) ELSE i

RECURSIVE NumVal(_)
NumVal(ds) == IF ds = <<>> THEN 0 ELSE 10 * NumVal(SubSeq(ds, 1, Len(ds) - 1)) + 1

RECURSIVE StrEnd(_, _)
StrEnd(s, i) == IF i > Len(s) THEN 0 ELSE IF s[i] = Quote THEN i ELSE StrEnd(s, i + 1)

\* a string literal starting at s[i] = Quote
ParseString(s, i) ==
    LET j == StrEnd(s, i + 1)
    IN  IF j = 0 THEN Fail ELSE [ok |-> TRUE, v |-> Str(SubSeq(s, i + 1, j - 1)), i |-> j + 1]

RECURSIVE ParseValue(_, _)
RECURSIVE ParseMembers(_, _, _)
RECURSIVE ParseElements(_, _, _)

\* the members of an object, s[i] the first character of a member
ParseMembers(s, i, acc) ==
    IF i > Len(s) \/ s[i] # Quote THEN Fail
    ELSE LET key == ParseString(s, i)
             j == SkipWs(s, key.i)
         IN  IF ~key.ok \/ j > Len(s) \/ s[j] # ":" THEN Fail
             ELSE LET val == ParseValue(s, SkipWs(s, j + 1))
                      n == SkipWs(s, val.i)
                      acc2 == [x \in DOMAIN acc \cup {key.v.s} |->
                                  IF x = key.v.s THEN val.v ELSE acc[x]]
                  IN  IF ~val.ok \/ n > Len(s) THEN Fail
                      ELSE IF s[n] = "}" THEN [ok |-> TRUE, v |-> Map(acc2), i |-> n + 1]
                      ELSE IF s[n] = "," THEN ParseMembers(s, SkipWs(s, n + 1), acc2)
                      ELSE Fail

\* the elements of an array, s[i] the first character of an element
ParseElements(s, i, acc) ==
    LET val == ParseValue(s, i)
        n == SkipWs(s, val.i)
    IN  IF ~val.ok \/ n > Len(s) THEN Fail
        ELSE IF s[n] = "]" THEN [ok |-> TRUE, v |-> List(Append(acc, val.v)), i |-> n + 1]
        ELSE IF s[n] = "," THEN ParseElements(s, SkipWs(s, n + 1), Append(acc, val.v))
        ELSE Fail

\* one JSON value starting at s[i], s[i] not white space
ParseValue(s, i) ==
    IF i > Len(s) THEN Fail
    ELSE IF s[i] = "{" THEN
        LET j == SkipWs(s, i + 1)
        IN  IF j <= Len(s) /\ s[j] = "}" THEN [ok |-> TRUE, v |-> Map(EmptyMap), i |-> j + 1]
            ELSE ParseMembers(s, j, EmptyMap)
    ELSE IF s[i] = "[" THEN
        LET j == SkipWs(s, i + 1)
        IN  IF j <= Len(s) /\ s[j] = "]" THEN [ok |-> TRUE, v |-> List(<<>>), i |-> j + 1]
            ELSE ParseElements(s, j, <<>>)
    ELSE IF s[i] = Quote THEN ParseString(s, i)
    ELSE IF IsDigit(s[i]) THEN
        LET j == NumEnd(s, i)
        IN  [ok |-> TRUE, v |-> Num(NumVal(SubSeq(s, i, j - 1))), i |-> j]
    ELSE Fail

\* json.Unmarshal([]byte(s), &x): the whole of s is one value between white space
JSONDocument(s) ==
    LET r == ParseValue(s, SkipWs(s, 1))
    IN  IF r.ok /\ SkipWs(s, r.i) = Len(s) + 1 THEN r ELSE Fail

\* json.Unmarshal into a map[string]any: err == nil
JSONObjectOK(s) == JSONDocument(s).ok /\ JSONDocument(s).v.kind = "map"

\* json.Unmarshal into a []any: err == nil
JSONArrayOK(s) == JSONDocument(s).ok /\ JSONDocument(s).v.kind = "list"

-----------------------------------------------------------------------------
(* envTransform *)

envTransformTrimmed(key, v) ==
    LET t == TrimSpace(v)
    IN  IF HasPrefix(t, "{") /\ HasSuffix(t, "}") /\ JSONObjectOK(t)
        THEN <<ToLower(key), JSONDocument(t).v>>
        ELSE IF HasPrefix(t, "[") /\ HasSuffix(t, "]") /\ JSONArrayOK(t)
        THEN <<ToLower(key), JSONDocument(t).v>>
        ELSE <<ToLower(key), Str(v)>>

envTransformNoLower(key, v) ==
    IF HasPrefix(v, "{") /\ HasSuffix(v, "}") /\ JSONObjectOK(v)
    THEN <<key, JSONDocument(v).v>>
    ELSE IF HasPrefix(v, "[") /\ HasSuffix(v, "]") /\ JSONArrayOK(v)
    THEN <<key, JSONDocument(v).v>>
    ELSE <<key, Str(v)>>

envTransform(key, v) ==
    IF HasPrefix(v, "{") /\ HasSuffix(v, "}") /\ JSONObjectOK(v)
    THEN <<ToLower(key), JSONDocument(v).v>>
    ELSE IF HasPrefix(v, "[") /\ HasSuffix(v, "]") /\ JSONArrayOK(v)
    THEN <<ToLower(key), JSONDocument(v).v>>
    ELSE <<ToLower(key), Str(v)>>

-----------------------------------------------------------------------------
(* Keys, documents and the sources Load reads *)

Kp == <<"p">>

Kd == <<"d">>

Kh == <<"h">>

Kf == <<"f">>

Ka == <<"a">>

Kb == <<"b">>

\* the paths a caller passes to WithLocalYAML, and what lies at each
NoPath == ""

MissingYAML == "missing.yaml"

BadYAML == "bad.yaml"

GoodYAML == "a.yaml"

Paths == {NoPath, MissingYAML, BadYAML, GoodYAML}

\* the document of a.yaml, as yaml.Parser().Unmarshal returns it:
\*   p: 3
\*   d: {h: y}
\*   f: {a: 2, b: 5}
DocA ==
    (Kp :> Num(3)) @@ (Kd :> Map(Kh :> Str(<<"y">>)))
        @@ (Kf :> Map((Ka :> Num(2)) @@ (Kb :> Num(5))))

\* os.ReadFile(path) followed by the YAML parser
ReadYAML(path) ==
    CASE path = GoodYAML -> [st |-> "ok", doc |-> DocA]
      [] path = BadYAML -> [st |-> "invalid", doc |-> EmptyMap]
      [] OTHER -> [st |-> "notexist", doc |-> EmptyMap]

\* raw variables of the environment-style sources: KEY=value
RawP == <<"P">>

RawDH == <<"D", "_", "_", "H">>

RawF == <<"F">>

RawFA == <<"F", "_", "_", "A">>

RawKeys == {RawP, RawDH, RawF, RawFA}

RawObject == <<"{", Quote, "a", Quote, ":", "1", "}">>

RawArray == <<"[", "1", "]">>

RawValsOf(key) ==
    CASE key = RawP -> {<<"1">>, <<"a">>}
      [] key = RawDH -> {<<"1">>, <<"a">>}
      [] key = RawF -> {RawObject, RawArray}
      [] OTHER -> {<<"1", "1">>}

RawVals == UNION {RawValsOf(key) : key \in RawKeys}

\* the sets of at most n variables with distinct names
VarSets(n) ==
    UNION {{f \in [S -> RawVals] : \A key \in S : f[key] \in RawValsOf(key)} :
              S \in {T \in SUBSET RawKeys : Cardinality(T) <= n}}

DotenvFiles ==
    {[st |-> "notexist", vars |-> <<>>], [st |-> "malformed", vars |-> <<>>]}
        \cup {[st |-> "ok", vars |-> f] : f \in VarSets(MaxDotenvVars)}

Environments ==
    {[st |-> "fail", vars |-> <<>>]} \cup {[st |-> "ok", vars |-> f] : f \in VarSets(MaxEnvVars)}

OptionLists == UNION {[1..n -> Paths] : n \in 0..MaxOpts}

-----------------------------------------------------------------------------
(* Errors *)

NoError == [tag |-> "", cause |-> {}]

\* fmt.Errorf("<tag>: %w", cause)
Wrap(tag, cause) == [tag |-> tag, cause |-> cause]

-----------------------------------------------------------------------------
(* koanf: maps.Unflatten, maps.Merge *)

RECURSIVE DelimAt(_, _)
\* the index of the first "__" of s at or after i, or 0
DelimAt(s, i) ==
    IF i + 1 > Len(s) THEN 0
    ELSE IF s[i] = "_" /\ s[i + 1] = "_" THEN i
    ELSE DelimAt(s, i + 1)

RECURSIVE Split(_)
\* strings.Split(s, "__")
Split(s) ==
    LET i == DelimAt(s, 1)
    IN  IF i = 0 THEN <<s>> ELSE <<SubSeq(s, 1, i - 1)>> \o Split(SubSeq(s, i + 2, Len(s)))

Put(m, key, v) == [x \in DOMAIN m \cup {key} |-> IF x = key THEN v ELSE m[x]]

RECURSIVE Assign(_, _, _)
\* one iteration of Unflatten's loop: walk the key parts from out, assign at the last
Assign(out, parts, v) ==
    IF Len(parts) = 1 THEN Put(out, parts[1], v)
    ELSE LET sub == IF parts[1] \in DOMAIN out THEN out[parts[1]] ELSE Map(EmptyMap)
         IN  IF IsMap(sub)
             THEN Put(out, parts[1], Map(Assign(sub.m, Tail(parts), v)))
             ELSE Assign(out, Tail(parts), v)

RECURSIVE Unflatten(_, _)
\* maps.Unflatten(flat, "__"), the keys of flat visited in the order ord
Unflatten(flat, ord) ==
    IF ord = <<>> THEN EmptyMap
    ELSE LET n == Len(ord)
             key == ord[n]
         IN  Assign(Unflatten(flat, SubSeq(ord, 1, n - 1)), Split(key), flat[key])

MergeTopLevel(a, b) ==
    [x \in DOMAIN a \cup DOMAIN b |-> IF x \in DOMAIN a THEN a[x] ELSE b[x]]

RECURSIVE MergeKeepOld(_, _)
MergeKeepOld(a, b) ==
    [x \in DOMAIN a \cup DOMAIN b |->
        IF x \notin DOMAIN a THEN b[x]
        ELSE IF x \notin DOMAIN b THEN a[x]
        ELSE IF IsMap(a[x]) /\ IsMap(b[x]) THEN Map(MergeKeepOld(a[x].m, b[x].m))
        ELSE b[x]]

RECURSIVE Merge(_, _)
\* maps.Merge(a, b): a merged into b, the result is the new b
Merge(a, b) ==
    [x \in DOMAIN a \cup DOMAIN b |->
        IF x \notin DOMAIN a THEN b[x]
        ELSE IF x \notin DOMAIN b THEN a[x]
        ELSE IF IsMap(a[x]) /\ IsMap(b[x]) THEN Map(Merge(a[x].m, b[x].m))
        ELSE a[x]]

RECURSIVE Orders(_)
\* the sequences that list every element of S once
Orders(S) ==
    IF S = {} THEN {<<>>} ELSE UNION {{<<x>> \o o : o \in Orders(S \ {x})} : x \in S}

\* the flat map an environment-style source builds: envTransform on every variable
\* (no two names of RawKeys differ only in case, so no two variables share a key)
Flat(rawVars) ==
    LET pairs == {envTransform(rk, rawVars[rk]) : rk \in DOMAIN rawVars}
    IN  [key \in {pr[1] : pr \in pairs} |-> (CHOOSE pr \in pairs : pr[1] = key)[2]]

\* the trees an environment-style source can produce: Go's map iteration order is
\* not fixed, and Unflatten's result depends on it when one key is a prefix of another
Trees(rawVars) ==
    LET flat == Flat(rawVars)
    IN  {Unflatten(flat, o) : o \in Orders(DOMAIN flat)}

-----------------------------------------------------------------------------
(* The target structure and koanf's Unmarshal (mapstructure, weakly typed)  *)
(*                                                                          *)
(*   type T struct {                                                        *)
(*       P int            `koanf:"p"`                                       *)
(*       D struct { H string `koanf:"h"` } `koanf:"d"`                      *)
(*       F map[string]int `koanf:"f"`                                       *)
(*   }                                                                      *)

\* the target as the caller hands it to Load
TargetBefore == [p |-> 8, d |-> [h |-> <<"z">>], f |-> EmptyMap]

IsNumeric(s) == s # <<>> /\ \A i \in 1..Len(s) : IsDigit(s[i])

\* decoding into an int field: [ok, v]
DecodeInt(v) ==
    CASE v.kind = "num" -> [ok |-> TRUE, v |-> v.n]
      [] v.kind = "str" ->
            IF v.s = <<>> THEN [ok |-> TRUE, v |-> 0]
            ELSE IF IsNumeric(v.s) THEN [ok |-> TRUE, v |-> NumVal(v.s)]
            ELSE [ok |-> FALSE, v |-> 0]
      [] OTHER -> [ok |-> FALSE, v |-> 0]

RECURSIVE FormatInt(_)
\* strconv formatting of a number, on the digits the model writes
FormatInt(n) ==
    LET digit == CASE n % 10 = 1 -> "1" [] n % 10 = 2 -> "2" [] n % 10 = 3 -> "3"
                   [] n % 10 = 5 -> "5" [] OTHER -> "0"
    IN  IF n < 10 THEN <<digit>> ELSE Append(FormatInt(n \div 10), digit)

\* decoding into a string field: [ok, v]
DecodeString(v) ==
    CASE v.kind = "str" -> [ok |-> TRUE, v |-> v.s]
      [] v.kind = "num" -> [ok |-> TRUE, v |-> FormatInt(v.n)]
      [] OTHER -> [ok |-> FALSE, v |-> <<>>]

\* the name of a field in an error: the path of key parts
FieldName(path) == path

\* decoding into the map[string]int field f, old the field's map: [bad, v]
DecodeMapField(v, old) ==
    CASE v.kind = "map" ->
            LET good == {x \in DOMAIN v.m : DecodeInt(v.m[x]).ok}
            IN  [bad |-> {FieldName(<<Kf, x>>) : x \in DOMAIN v.m \ good},
                 v |-> [x \in DOMAIN old \cup good |->
                           IF x \in good THEN DecodeInt(v.m[x]).v ELSE old[x]]]
      [] v.kind = "list" /\ v.l = <<>> -> [bad |-> {}, v |-> old]
      [] OTHER -> [bad |-> {FieldName(<<Kf>>)}, v |-> old]

\* decoding into the struct field d, old the field's struct: [bad, v]
DecodeStructField(v, old) ==
    IF v.kind # "map" THEN [bad |-> {FieldName(<<Kd>>)}, v |-> old]
    ELSE IF Kh \notin DOMAIN v.m THEN [bad |-> {}, v |-> old]
    ELSE LET h == DecodeString(v.m[Kh])
         IN  IF h.ok THEN [bad |-> {}, v |-> [old EXCEPT !.h = h.v]]
             ELSE [bad |-> {FieldName(<<Kd, Kh>>)}, v |-> old]

DecodeZeroAbsent(conf, old) ==
    LET p == IF Kp \in DOMAIN conf THEN DecodeInt(conf[Kp]) ELSE [ok |-> TRUE, v |-> 0]
        d == IF Kd \in DOMAIN conf THEN DecodeStructField(conf[Kd], old.d)
             ELSE [bad |-> {}, v |-> [h |-> <<>>]]
        f == IF Kf \in DOMAIN conf THEN DecodeMapField(conf[Kf], old.f)
             ELSE [bad |-> {}, v |-> EmptyMap]
    IN  [bad |-> (IF p.ok THEN {} ELSE {FieldName(<<Kp>>)}) \cup d.bad \cup f.bad,
         v |-> [p |-> IF p.ok THEN p.v ELSE old.p, d |-> d.v, f |-> f.v]]

\* d.Decode(conf) into the target old: [bad, v].  A field whose key the map lacks
\* is left alone; a field whose value does not convert is reported and left alone,
\* and the other fields are still written.
Decode(conf, old) ==
    LET p == IF Kp \in DOMAIN conf THEN DecodeInt(conf[Kp]) ELSE [ok |-> TRUE, v |-> old.p]
        d == IF Kd \in DOMAIN conf THEN DecodeStructField(conf[Kd], old.d)
             ELSE [bad |-> {}, v |-> old.d]
        f == IF Kf \in DOMAIN conf THEN DecodeMapField(conf[Kf], old.f)
             ELSE [bad |-> {}, v |-> old.f]
    IN  [bad |-> (IF p.ok THEN {} ELSE {FieldName(<<Kp>>)}) \cup d.bad \cup f.bad,
         v |-> [p |-> IF p.ok THEN p.v ELSE old.p, d |-> d.v, f |-> f.v]]

-----------------------------------------------------------------------------
(* options.go *)

RECURSIVE applyFirst(_, _)
applyFirst(o, os) ==
    IF os = <<>> THEN o
    ELSE IF o # NoPath THEN o
    ELSE applyFirst(os[1], Tail(os))

RECURSIVE apply(_, _)
\* options.apply(opts...): every option, here WithLocalYAML(path), sets withYaml
apply(o, os) == IF os = <<>> THEN o ELSE apply(os[1], Tail(os))

-----------------------------------------------------------------------------
(* config.go: the stages of Load.  Each returns [err, k, part]: the error,  *)
(* the merge store after it and, in part, the tree it merged (if any);      *)
(* loadFromYAML also tells whether it touched the file.                     *)

loadFromYAMLStrict(path, store) ==
    IF path = NoPath THEN [err |-> NoError, k |-> store, part |-> <<>>, touched |-> FALSE]
    ELSE LET r == ReadYAML(path)
         IN  CASE r.st = "ok" ->
                      [err |-> NoError, k |-> Merge(r.doc, store), part |-> <<r.doc>>,
                       touched |-> TRUE]
               [] r.st = "notexist" ->
                      [err |-> Wrap("load yaml", {"open: no such file or directory"}),
                       k |-> store, part |-> <<>>, touched |-> TRUE]
               [] OTHER ->
                      [err |-> Wrap("load yaml", {"yaml: invalid document"}),
                       k |-> store, part |-> <<>>, touched |-> TRUE]

loadFromYAML(path, store) ==
    IF path = NoPath THEN [err |-> NoError, k |-> store, part |-> <<>>, touched |-> FALSE]
    ELSE LET r == ReadYAML(path)
         IN  CASE r.st = "ok" ->
                      [err |-> NoError, k |-> Merge(r.doc, store), part |-> <<r.doc>>,
                       touched |-> TRUE]
               [] r.st = "notexist" ->
                      [err |-> NoError, k |-> store, part |-> <<>>, touched |-> TRUE]
               [] OTHER ->
                      [err |-> Wrap("load yaml", {"yaml: invalid document"}),
                       k |-> store, part |-> <<>>, touched |-> TRUE]

loadDotenvMistagged(file, tree, store) ==
    CASE file.st = "ok" -> [err |-> NoError, k |-> Merge(tree, store), part |-> <<tree>>]
      [] file.st = "notexist" -> [err |-> NoError, k |-> store, part |-> <<>>]
      [] OTHER -> [err |-> Wrap("load yaml", {"dotenv: unexpected character"}),
                   k |-> store, part |-> <<>>]

\* tree is the tree the parser made of the file's variables
loadDotenv(file, tree, store) ==
    CASE file.st = "ok" -> [err |-> NoError, k |-> Merge(tree, store), part |-> <<tree>>]
      [] file.st = "notexist" -> [err |-> NoError, k |-> store, part |-> <<>>]
      [] OTHER -> [err |-> Wrap("load dotenv", {"dotenv: unexpected character"}),
                   k |-> store, part |-> <<>>]

\* tree is the tree the provider made of the environment's variables
loadEnv(env, tree, store) ==
    IF env.st = "ok" THEN [err |-> NoError, k |-> Merge(tree, store), part |-> <<tree>>]
    ELSE [err |-> Wrap("load env", {"env: read failed"}), k |-> store, part |-> <<>>]

\* k.Unmarshal("", c) and the wrapping of its error: [err, c]
unmarshal(store, target) ==
    LET r == Decode(store, target)
    IN  [err |-> IF r.bad = {} THEN NoError ELSE Wrap("unmarshal", r.bad), c |-> r.v]

-----------------------------------------------------------------------------
(* Load as a state machine *)

Init ==
    /\ opts \in OptionLists
    /\ dotenvFile \in DotenvFiles
    /\ environ \in Environments
    /\ options = NoPath
    /\ k = EmptyMap
    /\ c = TargetBefore
    /\ err = NoError
    /\ pc = "start"
    /\ ran = <<>>
    /\ log = <<>>
    /\ tk = <<>>
    /\ tv = <<>>
    /\ tout = <<>>

AfterKeepGoing(e, next) == next

AfterFallThrough(e, next) == IF e # NoError THEN "unmarshal" ELSE next

\* the stage after a stage that returned e: an error ends Load
After(e, next) == IF e # NoError THEN "done" ELSE next

\* the log after a stage that merged part into the store before
Logged(src, part, before) ==
    IF part = <<>> THEN log ELSE Append(log, [src |-> src, tree |-> part[1], before |-> before])

\* options := new(options); options.apply(opts...); k := koanf.New(".")
ApplyOptions ==
    /\ pc = "start"
    /\ options' = apply(NoPath, opts)
    /\ k' = EmptyMap
    /\ pc' = "yaml"
    /\ UNCHANGED <<opts, dotenvFile, environ, c, err, ran, log, probeVars>>

\* if err := loadFromYAML(options.withYaml, k); err != nil { return err }
LoadFromYAML ==
    /\ pc = "yaml"
    /\ LET r == loadFromYAML(options, k)
       IN  /\ k' = r.k
           /\ err' = r.err
           /\ ran' = IF r.touched THEN Append(ran, "yaml") ELSE ran
           /\ log' = Logged("yaml", r.part, k)
           /\ pc' = After(r.err, "dotenv")
    /\ UNCHANGED <<opts, dotenvFile, environ, options, c, probeVars>>

\* if err := loadDotenv(k); err != nil { return err }
LoadDotenv ==
    /\ pc = "dotenv"
    /\ \E tree \in Trees(dotenvFile.vars) :
          LET r == loadDotenv(dotenvFile, tree, k)
          IN  /\ k' = r.k
              /\ err' = r.err
              /\ log' = Logged("dotenv", r.part, k)
              /\ pc' = After(r.err, "env")
    /\ ran' = Append(ran, "dotenv")
    /\ UNCHANGED <<opts, dotenvFile, environ, options, c, probeVars>>

\* if err := loadEnv(k); err != nil { return err }
LoadEnv ==
    /\ pc = "env"
    /\ \E tree \in Trees(environ.vars) :
          LET r == loadEnv(environ, tree, k)
          IN  /\ k' = r.k
              /\ err' = r.err
              /\ log' = Logged("env", r.part, k)
              /\ pc' = After(r.err, "unmarshal")
    /\ ran' = Append(ran, "env")
    /\ UNCHANGED <<opts, dotenvFile, environ, options, c, probeVars>>

\* if err := k.Unmarshal("", c); err != nil { return fmt.Errorf("unmarshal: %w", err) }
\* return nil
Unmarshal ==
    /\ pc = "unmarshal"
    /\ LET r == unmarshal(k, c)
       IN  /\ c' = r.c
           /\ err' = r.err
    /\ ran' = Append(ran, "unmarshal")
    /\ pc' = "done"
    /\ UNCHANGED <<opts, dotenvFile, environ, options, k, log, probeVars>>

Next == ApplyOptions \/ LoadFromYAML \/ LoadDotenv \/ LoadEnv \/ Unmarshal

Spec == Init /\ [][Next]_vars

-----------------------------------------------------------------------------
(* envTransform on its own: every short raw value, and some longer ones *)

Chars == {"{", "}", "[", "]", Quote, ":", ",", Space, "1", "a"}

ShortVals == UNION {[1..n -> Chars] : n \in 0..MaxValLen}

LongVals ==
    { RawObject,
      <<"{", Quote, "a", Quote, ":", Space, "1", "}">>,
      <<Space, "{", Quote, "a", Quote, ":", "1", "}">>,
      <<"{", Quote, "a", Quote, ":", "1", "}", Space>>,
      <<Space, "[", "1", ",", "1", "]", Space>>,
      <<"[", "1", ",", Space, Quote, "a", Quote, "]">>,
      <<"{", Quote, "a", Quote, ":", "{", Quote, "a", Quote, ":", "[", "]", "}", "}">>,
      <<"{", Quote, "a", Quote, ":", "1", ",", "}">>,
      <<"{", Quote, "a", Quote, ":", "1", ",", Quote, "a", Quote, ":", "1", "1", "}">> }

ProbeKeys == RawKeys \cup {<<"p">>, <<"d", "_", "H">>}

NoResult == <<>>

InitT ==
    /\ opts = <<>>
    /\ dotenvFile = [st |-> "notexist", vars |-> <<>>]
    /\ environ = [st |-> "ok", vars |-> <<>>]
    /\ options = NoPath
    /\ k = EmptyMap
    /\ c = TargetBefore
    /\ err = NoError
    /\ pc = "probe"
    /\ ran = <<>>
    /\ log = <<>>
    /\ tk \in ProbeKeys
    /\ tv \in ShortVals \cup LongVals
    /\ tout = NoResult

\* key, value := envTransform(tk, tv)
Transform ==
    /\ pc = "probe"
    /\ tout = NoResult
    /\ tout' = envTransform(tk, tv)
    /\ UNCHANGED <<loadVars, tk, tv>>

NextT == Transform

SpecT == InitT /\ [][NextT]_vars

-----------------------------------------------------------------------------
(* Vocabulary of the properties: key paths of a tree, and what each source  *)
(* of a call defines                                                        *)

RECURSIVE Has(_, _)
\* the tree t holds a value at the key path
Has(t, path) ==
    /\ path[1] \in DOMAIN t
    /\ Len(path) > 1 => IsMap(t[path[1]]) /\ Has(t[path[1]].m, Tail(path))

RECURSIVE At(_, _)
At(t, path) == IF Len(path) = 1 THEN t[path[1]] ELSE At(t[path[1]].m, Tail(path))

HoldsAt(t, path, v) == Has(t, path) /\ At(t, path) = v

RECURSIVE PathsOf(_)
\* every key path of the tree t, inner nodes included
PathsOf(t) ==
    UNION {{<<x>>} \cup (IF IsMap(t[x]) THEN {<<x>> \o q : q \in PathsOf(t[x].m)} ELSE {}) :
              x \in DOMAIN t}

\* the tree t holds a non-map value at a proper prefix of the key path
Shadows(t, path) ==
    \E i \in 1..(Len(path) - 1) :
        Has(t, SubSeq(path, 1, i)) /\ ~IsMap(At(t, SubSeq(path, 1, i)))

Done == pc = "done"

\* the stages that ran
Ran == {ran[i] : i \in 1..Len(ran)}

Tagged(tag) == err # NoError /\ err.tag = tag

YAMLConfigured == options # NoPath

YAMLMissing == YAMLConfigured /\ ReadYAML(options).st = "notexist"

YAMLInvalid == YAMLConfigured /\ ReadYAML(options).st = "invalid"

\* the trees each source of this call can contribute (none when it is absent)
YAMLTrees == IF YAMLConfigured /\ ReadYAML(options).st = "ok" THEN {ReadYAML(options).doc} ELSE {}

DotenvTrees == IF dotenvFile.st = "ok" THEN Trees(dotenvFile.vars) ELSE {}

EnvTrees == IF environ.st = "ok" THEN Trees(environ.vars) ELSE {}

Defines(trees, path) == \E t \in trees : Has(t, path)

ValuesAt(trees, path) == {At(t, path) : t \in {u \in trees : Has(u, path)}}

Shadowing(trees, path) == \E t \in trees : Shadows(t, path)

\* the leaf fields of the target, by key path, and the fields as Decode names them
LeafPaths == {<<Kp>>, <<Kd, Kh>>, <<Kf, Ka>>, <<Kf, Kb>>}

FieldHeld(target, path) == path[1] = Kf => path[2] \in DOMAIN target.f

FieldValue(target, path) ==
    CASE path = <<Kp>> -> target.p
      [] path = <<Kd, Kh>> -> target.d.h
      [] OTHER -> target.f[path[2]]

\* the value a field of the target takes from the source value v
Converted(path, v) == IF path = <<Kd, Kh>> THEN DecodeString(v).v ELSE DecodeInt(v).v

Holds(target, path, values) ==
    FieldHeld(target, path) /\ FieldValue(target, path) \in {Converted(path, v) : v \in values}

-----------------------------------------------------------------------------
(* C1 *)

\* C1 as stated: after a successful Load every leaf field holds the value of the
\* highest-precedence source that defines its key path (environment, else .env,
\* else the structured file).
C1_Original ==
    (Done /\ err = NoError) =>
        LET E == EnvTrees
            D == DotenvTrees
            Y == YAMLTrees
        IN  \A path \in LeafPaths :
                IF Defines(E, path) THEN Holds(c, path, ValuesAt(E, path))
                ELSE IF Defines(D, path) THEN Holds(c, path, ValuesAt(D, path))
                ELSE IF Defines(Y, path) THEN Holds(c, path, ValuesAt(Y, path))
                ELSE TRUE

\* C1 (amended): after a successful Load every leaf field holds the value of the
\* highest-precedence source that defines its key path, provided no source of
\* higher precedence than that one sets a non-map value at a proper prefix of the
\* path (such a value replaces the whole subtree the earlier source had put there).
C1_Precedence ==
    (Done /\ err = NoError) =>
        LET E == EnvTrees
            D == DotenvTrees
            Y == YAMLTrees
        IN  \A path \in LeafPaths :
                IF Defines(E, path) THEN Holds(c, path, ValuesAt(E, path))
                ELSE IF Defines(D, path)
                THEN Shadowing(E, path) \/ Holds(c, path, ValuesAt(D, path))
                ELSE IF Defines(Y, path)
                THEN \/ Shadowing(E, path)
                     \/ Shadowing(D, path)
                     \/ Holds(c, path, ValuesAt(Y, path))
                ELSE TRUE

\* all three sources define d.h, .env and environment differently, and the
\* environment's value is in the target
C1_Witness ==
    /\ Done /\ err = NoError
    /\ Defines(YAMLTrees, <<Kd, Kh>>)
    /\ dotenvFile.st = "ok" /\ RawDH \in DOMAIN dotenvFile.vars
    /\ environ.st = "ok" /\ RawDH \in DOMAIN environ.vars
    /\ dotenvFile.vars[RawDH] = <<"1">> /\ environ.vars[RawDH] = <<"a">>
    /\ c.d.h = <<"a">>

-----------------------------------------------------------------------------
(* C2 *)

\* what Load(&c, WithLocalYAML(path)) can return with this .env file and this
\* environment: the pairs <<error, target>>
Outcomes(path, file, env) ==
    LET y == loadFromYAML(path, EmptyMap)
        dts == Trees(file.vars)
        ets == Trees(env.vars)
    IN  IF y.err # NoError THEN {<<y.err, TargetBefore>>}
        ELSE UNION {
            LET d == loadDotenv(file, dt, y.k)
            IN  IF d.err # NoError THEN {<<d.err, TargetBefore>>}
                ELSE {LET e == loadEnv(env, et, d.k)
                          u == unmarshal(e.k, TargetBefore)
                      IN  IF e.err # NoError THEN <<e.err, TargetBefore>> ELSE <<u.err, u.c>> :
                         et \in ets} :
            dt \in dts}

EmptyDotenv == [st |-> "ok", vars |-> <<>>]

\* C2 as stated: with a path that does not exist Load returns nil, whatever the
\* .env file and the environment hold, and the target of a Load without the option.
C2_Original ==
    (Done /\ YAMLMissing) =>
        /\ err = NoError
        /\ \E o \in Outcomes(NoPath, dotenvFile, environ) : o[2] = c

\* C2 (amended): with a path that does not exist Load returns what Load without
\* WithLocalYAML returns on the same .env file and environment, the same error
\* (nil or not) and the same target, and never a load yaml error; a missing .env
\* file contributes nothing (Load returns what it returns with an empty .env file)
\* and never produces a load dotenv error.
C2_NotFound ==
    Done =>
        /\ YAMLMissing =>
              /\ <<err, c>> \in Outcomes(NoPath, dotenvFile, environ)
              /\ ~Tagged("load yaml")
        /\ dotenvFile.st = "notexist" =>
              /\ <<err, c>> \in Outcomes(options, EmptyDotenv, environ)
              /\ ~Tagged("load dotenv")

\* the path and the .env file are both missing, and Load filled the target from
\* the environment
C2_Witness ==
    /\ Done /\ YAMLMissing /\ dotenvFile.st = "notexist"
    /\ err = NoError
    /\ c # TargetBefore

-----------------------------------------------------------------------------
(* C3 *)

StageRank(stage) ==
    CASE stage = "yaml" -> 1 [] stage = "dotenv" -> 2 [] stage = "env" -> 3 [] OTHER -> 4

StageOfTag(tag) ==
    CASE tag = "load yaml" -> "yaml"
      [] tag = "load dotenv" -> "dotenv"
      [] tag = "load env" -> "env"
      [] OTHER -> "unmarshal"

\* the stages that run when nothing fails, up to and including stage
StagesThrough(stage) ==
    LET all == (IF YAMLConfigured THEN <<"yaml">> ELSE <<>>) \o <<"dotenv", "env", "unmarshal">>
        n == CHOOSE i \in 1..Len(all) : all[i] = stage
    IN  SubSeq(all, 1, n)

\* C3: the stages run in the order structured file (only if configured), .env,
\* environment, materialize, each at most once; the first stage that reports an
\* error ends Load with that stage's error, and no later stage runs.
C3_FailFast ==
    /\ \A i, j \in 1..Len(ran) : i < j => StageRank(ran[i]) < StageRank(ran[j])
    /\ "yaml" \in Ran => YAMLConfigured
    /\ err # NoError =>
          /\ Done
          /\ err.tag \in {"load yaml", "load dotenv", "load env", "unmarshal"}
          /\ ran = StagesThrough(StageOfTag(err.tag))
    /\ (Done /\ err = NoError) => ran = StagesThrough("unmarshal")
    /\ Done => ~ENABLED Next

\* the .env stage failed after the structured file had been merged: the
\* environment was not read and nothing was materialized
C3_Witness ==
    /\ Done /\ Tagged("load dotenv")
    /\ ran = <<"yaml", "dotenv">>
    /\ k # EmptyMap
    /\ environ.st = "ok" /\ environ.vars # <<>>

-----------------------------------------------------------------------------
(* C4 *)

\* the fields of the target whose merged value does not convert
Unconvertible ==
    {path \in {<<Kp>>, <<Kd>>, <<Kd, Kh>>, <<Kf>>, <<Kf, Ka>>, <<Kf, Kb>>} :
        /\ Has(k, path)
        /\ CASE path = <<Kp>> -> At(k, path).kind \notin {"num", "str"}
                                   \/ (At(k, path).kind = "str" /\ At(k, path).s # <<>>
                                       /\ \E i \in 1..Len(At(k, path).s) : At(k, path).s[i] # "1")
             [] path = <<Kd>> -> ~IsMap(At(k, path))
             [] path = <<Kd, Kh>> -> At(k, path).kind \notin {"num", "str"}
             [] path = <<Kf>> -> ~IsMap(At(k, path)) /\ At(k, path) # List(<<>>)
             [] OTHER -> At(k, path).kind \notin {"num", "str"}
                           \/ (At(k, path).kind = "str" /\ At(k, path).s # <<>>
                               /\ \E i \in 1..Len(At(k, path).s) : At(k, path).s[i] # "1")}

\* C4: a non-nil error of Load carries the prefix of the stage that failed and
\* wraps that stage's cause: load yaml for an invalid document, load dotenv for a
\* malformed .env file, load env for a failed enumeration, unmarshal for a merged
\* value that does not convert to its field's type.
C4_Tagging ==
    Done =>
        IF YAMLInvalid THEN err = Wrap("load yaml", {"yaml: invalid document"})
        ELSE IF dotenvFile.st = "malformed"
        THEN err = Wrap("load dotenv", {"dotenv: unexpected character"})
        ELSE IF environ.st = "fail" THEN err = Wrap("load env", {"env: read failed"})
        ELSE IF Unconvertible # {} THEN err = Wrap("unmarshal", Unconvertible)
        ELSE err = NoError

\* a non-numeric string reached the integer field p
C4_Witness ==
    /\ Done /\ Tagged("unmarshal")
    /\ Has(k, <<Kp>>) /\ k[Kp] = Str(<<"a">>)
    /\ <<Kp>> \in err.cause

-----------------------------------------------------------------------------
(* C5 and C6: envTransform, under SpecT *)

Braced(s) == HasPrefix(s, "{") /\ HasSuffix(s, "}")

Bracketed(s) == HasPrefix(s, "[") /\ HasSuffix(s, "]")

UpperChars == {"A", "D", "F", "H", "P"}

\* C5: envTransform returns, for every raw pair, the lower-cased key and as value
\* the parsed map when the value is {...} and parses as a JSON object, else the
\* parsed list when it is [...] and parses as a JSON array, else the original
\* string; {"a": 1} becomes the map a -> 1 and the malformed [ stays the string [.
C5_Transform ==
    tout # NoResult =>
        /\ Len(tout[1]) = Len(tk)
        /\ \A i \in 1..Len(tk) : tout[1][i] \notin UpperChars /\ tout[1][i] = LowerChar(tk[i])
        /\ tout[2].kind \in {"map", "list", "str"}
        /\ IF Braced(tv) /\ JSONObjectOK(tv)
           THEN tout[2].kind = "map" /\ tout[2] = JSONDocument(tv).v
           ELSE IF Bracketed(tv) /\ JSONArrayOK(tv)
           THEN tout[2].kind = "list" /\ tout[2] = JSONDocument(tv).v
           ELSE tout[2] = Str(tv)
        /\ tv = <<"{", Quote, "a", Quote, ":", Space, "1", "}">> => tout[2] = Map(Ka :> Num(1))
        /\ tv = <<"[">> => tout[2] = Str(<<"[">>)

\* F__A={"a": 1} became the key f__a and the map a -> 1
C5_Witness ==
    /\ tk = RawFA
    /\ tv = <<"{", Quote, "a", Quote, ":", Space, "1", "}">>
    /\ tout = <<<<"f", "_", "_", "a">>, Map(Ka :> Num(1))>>

\* C6 as stated: a raw value whose trimmed form is {...} (resp. [...]) and valid
\* JSON is coerced to a map (resp. list).
C6_Original ==
    tout # NoResult =>
        LET t == TrimSpace(tv)
        IN  /\ (Braced(t) /\ JSONObjectOK(t)) => tout[2].kind = "map"
            /\ (Bracketed(t) /\ JSONArrayOK(t)) => tout[2].kind = "list"

\* C6 (amended): embedded-JSON detection is performed on the raw value: a value
\* with leading or trailing white space is left as the original string, also when
\* its trimmed form is {...} or [...] and valid JSON; a value is coerced to a map
\* (resp. list) exactly when the raw value starts with { and ends with } (resp.
\* [ and ]) and is valid JSON.
C6_RawValue ==
    tout # NoResult =>
        /\ tv # TrimSpace(tv) => tout[2] = Str(tv)
        /\ tout[2].kind = "map" <=> (Braced(tv) /\ JSONObjectOK(tv))
        /\ tout[2].kind = "list" <=> (Bracketed(tv) /\ JSONArrayOK(tv))

\* the padded value  {"a":1}  trims to a valid JSON object and stayed a string
C6_Witness ==
    /\ tv = <<Space, "{", Quote, "a", Quote, ":", "1", "}">>
    /\ Braced(TrimSpace(tv)) /\ JSONObjectOK(TrimSpace(tv))
    /\ tout # NoResult
    /\ tout[2] = Str(tv)

-----------------------------------------------------------------------------
(* C7 *)

\* the store after the i-th merge of the log
StoreAfter(i) == IF i < Len(log) THEN log[i + 1].before ELSE k

-----------------------------------------------------------------------------
(* C8 *)

SourceTrees == YAMLTrees \cup DotenvTrees \cup EnvTrees

Absent(path) == ~Defines(SourceTrees, path)

-----------------------------------------------------------------------------
(* C9 *)

LastPath == IF opts = <<>> THEN NoPath ELSE opts[Len(opts)]

\* C9: the options are applied in order to a fresh accumulator, so the path is
\* that of the last WithLocalYAML (none without options); the structured-file
\* stage reads a file exactly when that path is not empty, and reads that file
\* only: at most one structured file is ingested.
C9_Options ==
    /\ pc = "start" => options = NoPath
    /\ pc # "start" => options = LastPath
    /\ pc \notin {"start", "yaml"} => ("yaml" \in Ran <=> LastPath # NoPath)
    /\ Cardinality({i \in 1..Len(ran) : ran[i] = "yaml"}) <= 1
    /\ Cardinality({i \in 1..Len(log) : log[i].src = "yaml"}) <= 1
    /\ \A i \in 1..Len(log) :
          log[i].src = "yaml" => LastPath = GoodYAML /\ log[i].tree = DocA
    /\ Tagged("load yaml") => LastPath = BadYAML
    /\ pc = "dotenv" => k = IF LastPath = GoodYAML THEN DocA ELSE EmptyMap

\* WithLocalYAML(bad.yaml), WithLocalYAML(a.yaml): only a.yaml was read
C9_Witness ==
    /\ opts = <<BadYAML, GoodYAML>>
    /\ pc = "dotenv"
    /\ err = NoError
    /\ ran = <<"yaml">>
    /\ k = DocA

-----------------------------------------------------------------------------
(* C10 *)

SourceTags == {"load yaml", "load dotenv", "load env"}

\* C10: when Load returns an error of a source stage the target is as it was
\* before the call; the target is written only by the materializer, which runs
\* only after the three source stages succeeded, so only an unmarshal error can
\* come with a modified target.
C10_TargetUntouched ==
    /\ (err # NoError /\ err.tag \in SourceTags) => c = TargetBefore
    /\ c # TargetBefore =>
          /\ ran = StagesThrough("unmarshal")
          /\ ~YAMLInvalid /\ dotenvFile.st # "malformed" /\ environ.st = "ok"
    /\ (err # NoError /\ c # TargetBefore) => err.tag = "unmarshal"

\* the environment stage failed with the structured file already in the store,
\* and the target is untouched
C10_Witness ==
    /\ Done /\ Tagged("load env")
    /\ Has(k, <<Kp>>)
    /\ c = TargetBefore

\* an unmarshal error with some fields of the target already written
PartiallyModified == Done /\ Tagged("unmarshal") /\ c # TargetBefore

====
